---- MODULE Spec2Model ----
(***************************************************************************)
(* brightness.py: show or set the backlight level through the two sysfs    *)
(* attributes `brightness' and `max_brightness'.                           *)
(*                                                                         *)
(* Text is modelled as a sequence of characters, each character a string.  *)
(* "U+0663" stands for ARABIC-INDIC DIGIT THREE, a decimal digit (Unicode  *)
(* category Nd) that is not ASCII; "LF" stands for the newline character.  *)
(* A run of the tool is a process p; its position in the code is pc[p].    *)
(***************************************************************************)
EXTENDS Integers, Sequences, FiniteSets, TLC

VARIABLES
    device,          \* contents of the two sysfs attributes, as text
    argv,            \* per run: the parsed command line (docopt's args)
    pc,              \* per run: position in the code
    groups,          \* per run: matches.groups() of set_current_brightness
    cur_brightness,  \* per run: local cur_brightness
    max_brightness,  \* per run: local max_brightness
    new_brightness,  \* per run: local new_brightness
    handle,          \* per run: the file objects that are open
    trace,           \* per run: the device operations performed, in order
    stdout,          \* per run: the lines printed
    outcome          \* per run: how the run ended

vars == <<device, argv, pc, groups, cur_brightness, max_brightness,
          new_brightness, handle, trace, stdout, outcome>>

----------------------------------------------------------------------------
(* Bounds of the model.                                                    *)

MaxLen == 4        \* longest <value> tried against the grammar (SpecParse)
MaxArgLen == 3     \* longest <value> of a whole run (Spec)
MaxCur == 3        \* largest initial level of the device
MaxMax == 6        \* largest max_brightness of the device
MaxPctLen == 2     \* longest digit string of a percentage (SpecRound)
MaxRoundMax == 10  \* largest max_brightness of a conversion (SpecRound)
MaxConcLen == 2    \* longest <value> of two concurrent runs (SpecConc)

----------------------------------------------------------------------------
(* Characters and text.                                                    *)

None == "None"

AsciiDigits == {"0", "1", "2", "3", "4", "5", "6", "7", "8", "9"}

\* What the regular expression class \d and int() take for a decimal digit
\* of a str: every character of Unicode category Nd.
DecimalDigits == AsciiDigits \cup {"U+0663"}

DigitValue(c) ==
    CASE c = "0" -> 0 [] c = "1" -> 1 [] c = "2" -> 2 [] c = "3" -> 3
      [] c = "4" -> 4 [] c = "5" -> 5 [] c = "6" -> 6 [] c = "7" -> 7
      [] c = "8" -> 8 [] c = "9" -> 9 [] c = "U+0663" -> 3

Whitespace == {" ", "LF"}

\* The alphabet the <value> strings are drawn from.
Chars == {"+", "-", "%", "0", "9", "a", " ", "U+0663"}

Strings(alphabet, n) == UNION {[1..k -> alphabet] : k \in 0..n}

RECURSIVE DigitsToInt(_)
DigitsToInt(ds) ==
    IF ds = <<>> THEN 0
    ELSE 10 * DigitsToInt(SubSeq(ds, 1, Len(ds) - 1)) + DigitValue(ds[Len(ds)])

RECURSIVE NatStr(_)
NatStr(n) ==
    LET d == <<"0", "1", "2", "3", "4", "5", "6", "7", "8", "9">>[(n % 10) + 1]
    IN  IF n < 10 THEN <<d>> ELSE NatStr(n \div 10) \o <<d>>

\* str(n) of an int.
PyStr(n) == IF n < 0 THEN <<"-">> \o NatStr(-n) ELSE NatStr(n)

RECURSIVE Strip(_)
Strip(s) ==
    IF s = <<>> THEN s
    ELSE IF s[1] \in Whitespace THEN Strip(Tail(s))
    ELSE IF s[Len(s)] \in Whitespace THEN Strip(SubSeq(s, 1, Len(s) - 1))
    ELSE s

\* int(text): surrounding whitespace is dropped, then an optional sign and
\* one or more decimal digits; anything else raises ValueError (ok = FALSE).
PyInt(text) ==
    LET s == Strip(text)
        signed == s # <<>> /\ s[1] \in {"+", "-"}
        body == IF signed THEN Tail(s) ELSE s
        ok == body # <<>> /\ \A i \in 1..Len(body) : body[i] \in DecimalDigits
    IN  [ok |-> ok,
         val |-> IF ~ok THEN 0
                 ELSE IF signed /\ s[1] = "-" THEN 0 - DigitsToInt(body)
                 ELSE DigitsToInt(body)]

----------------------------------------------------------------------------
(* re.fullmatch('([+-])?(\d+)(%)?', value).groups(), or None.              *)
(* groups[1], groups[2], groups[3] here are groups[0..2] of the source.    *)

RECURSIVE DigitRun(_, _)
DigitRun(s, i) ==
    IF i <= Len(s) /\ s[i] \in DecimalDigits THEN 1 + DigitRun(s, i + 1) ELSE 0

fullmatch(value) ==
    LET hasSign == value # <<>> /\ value[1] \in {"+", "-"}
        from == IF hasSign THEN 2 ELSE 1
        run == DigitRun(value, from)
        after == from + run
        hasPct == after <= Len(value) /\ value[after] = "%"
        end == IF hasPct THEN after + 1 ELSE after
    IN  IF run >= 1 /\ end = Len(value) + 1
        THEN <<IF hasSign THEN value[1] ELSE None,
               SubSeq(value, from, after - 1),
               IF hasPct THEN "%" ELSE None>>
        ELSE <<>>

----------------------------------------------------------------------------
(* Arithmetic of the tool.                                                 *)

\* Mutant of PyRoundDiv100: a tie goes up instead of to the even integer.
PyRoundDiv100_half_up(k) == (k + 50) \div 100

\* round(k / 100) for an int k >= 0: the true division gives the double
\* nearest to k/100 and round() takes it to the nearest integer, a tie to
\* the even one.  k/100 is exact in a double whenever it is a tie, so for
\* k below 2^53 this is the rounding of the rational k/100.
PyRoundDiv100(k) ==
    LET q == k \div 100
        r == k % 100
    IN  IF r < 50 THEN q
        ELSE IF r > 50 THEN q + 1
        ELSE IF q % 2 = 0 THEN q ELSE q + 1

\* Mutant of compute: a negative result is raised to 0.
compute_clamped(g, cur, max) ==
    LET n == IF g[1] = None /\ g[3] = None THEN DigitsToInt(g[2])
             ELSE IF g[1] = None THEN PyRoundDiv100(DigitsToInt(g[2]) * max)
             ELSE IF g[3] = None
                 THEN IF g[1] = "+" THEN cur + DigitsToInt(g[2])
                      ELSE cur - DigitsToInt(g[2])
             ELSE IF g[1] = "+" THEN cur + PyRoundDiv100(DigitsToInt(g[2]) * max)
             ELSE cur - PyRoundDiv100(DigitsToInt(g[2]) * max)
    IN  IF n < 0 THEN 0 ELSE n

\* Lines 91-109: the new level from the groups and the values read.
compute(g, cur, max) ==
    IF g[1] = None /\ g[3] = None THEN DigitsToInt(g[2])
    ELSE IF g[1] = None /\ g[3] # None
        THEN PyRoundDiv100(DigitsToInt(g[2]) * max)
    ELSE IF g[1] # None /\ g[3] = None
        THEN IF g[1] = "+" THEN cur + DigitsToInt(g[2])
             ELSE cur - DigitsToInt(g[2])
    ELSE LET delta == PyRoundDiv100(DigitsToInt(g[2]) * max)
         IN  IF g[1] = "+" THEN cur + delta ELSE cur - delta

\* Mutant of Format2f: the percentage comes from a floor division.
Format2f_floor(num, den) ==
    NatStr((num * 100) \div den) \o <<".", "0", "0">>

\* '{:.2f}'.format(num * 100 / den) for ints num >= 0, den > 0: the value
\* in hundredths is rounded to the nearest integer.  A tie needs
\* num * 20000 / den to be an odd integer, hence den a multiple of 32; the
\* double is then exact only when the tie falls on a multiple of 1/8, and
\* the even hundredth is taken.
Format2f(num, den) ==
    LET k == num * 10000
        q == k \div den
        r == k % den
        h == IF 2 * r < den THEN q
             ELSE IF 2 * r > den THEN q + 1
             ELSE IF q % 2 = 0 THEN q ELSE q + 1
    IN  NatStr(h \div 100) \o <<".">> \o NatStr((h % 100) \div 10) \o NatStr(h % 10)

\* Lines 51-53: the line print_current_brightness prints.
FormatLine(cur, max) ==
    <<"Current brightness: ">> \o PyStr(cur) \o <<"/">> \o PyStr(max)
        \o <<" (">> \o Format2f(cur, max) \o <<"%)">>

----------------------------------------------------------------------------
(* The device: the text of the two attributes under backlight_prefix_path. *)
(* The driver shows each as a decimal number and a newline.  Opening       *)
(* `brightness' for writing does not alter it (a sysfs attribute has no    *)
(* contents to truncate); the level changes when the written text reaches  *)
(* the driver, which is when the file object is closed.                    *)

Files == {"brightness", "max_brightness"}

Garbage == <<"a", "LF">>

DriverText(n) == PyStr(n) \o <<"LF">>

CurTexts == {DriverText(n) : n \in 0..MaxCur} \cup {Garbage}

MaxTexts == {DriverText(n) : n \in 0..MaxMax} \cup {Garbage}

----------------------------------------------------------------------------
(* Steps shared by the operations.                                         *)

Log(p, entries) == [trace EXCEPT ![p] = @ \o entries]

\* Lines 124-125: main turns a ValueError raised anywhere inside the try
\* into docopt.DocoptExit; every other exception leaves main as it is.
main_except(exc) == IF exc = "ValueError" THEN "DocoptExit" ELSE exc

\* Mutant of Raise: the exception is swallowed and the run goes on to the
\* write.
Raise_ignored(p, exc) ==
    /\ pc' = [pc EXCEPT ![p] = "set_write_open"]
    /\ outcome' = outcome

\* The run ends with exception exc raised inside the try of main.
Raise(p, exc) ==
    /\ pc' = [pc EXCEPT ![p] = "exit"]
    /\ outcome' = [outcome EXCEPT ![p] = main_except(exc)]

\* The exit status the interpreter gives the run.
ExitStatus(o) == IF o = "success" THEN 0 ELSE 1

\* open(backlight_prefix_path + '/' + file, mode) of a with statement; on
\* failure (ok = FALSE) OSError is raised and no file object exists.
open(p, file, mode, ok, next) ==
    /\ trace' = Log(p, <<<<"open_" \o mode, file, ok>>>>)
    /\ IF ok
       THEN /\ handle' = [handle EXCEPT ![p] = @ \cup {<<file, mode>>}]
            /\ pc' = [pc EXCEPT ![p] = next]
            /\ outcome' = outcome
       ELSE /\ handle' = handle
            /\ Raise(p, "OSError")

\* Mutant of with_exit: the file object stays open when an exception leaves
\* the block.
with_exit_leak(hs, h, raised) == IF raised THEN hs ELSE hs \ {h}

\* Leaving a with block closes its file object, on return and on exception.
with_exit(hs, h, raised) == hs \ {h}

\* Mutant of after_match: the current level is read whatever the groups.
after_match_eager(g) == "set_cur_open"

\* Lines 84-89 of set_current_brightness: which reads the groups ask for.
after_match(g) ==
    IF g[1] # None THEN "set_cur_open"
    ELSE IF g[3] # None THEN "set_max_open"
    ELSE "set_compute"

after_cur(g) == IF g[3] # None THEN "set_max_open" ELSE "set_compute"

----------------------------------------------------------------------------
(* main (lines 115-125).  argv[p].cmd is "set" when args['set'] is true,    *)
(* "show" for `show' and for no subcommand, "other" for a command line     *)
(* that docopt rejects.                                                    *)

main(p) ==
    /\ pc[p] = "main"
    /\ IF argv[p].cmd = "other"
       THEN \* docopt.docopt rejects the command line itself (line 116)
            /\ pc' = [pc EXCEPT ![p] = "exit"]
            /\ outcome' = [outcome EXCEPT ![p] = "DocoptExit"]
       ELSE /\ pc' = [pc EXCEPT ![p] =
                        IF argv[p].cmd = "set" THEN "set_match" ELSE "show_max_open"]
            /\ outcome' = outcome
    /\ UNCHANGED <<device, argv, groups, cur_brightness, max_brightness,
                   new_brightness, handle, trace, stdout>>

----------------------------------------------------------------------------
(* read_brightness (lines 17-29) and read_max_brightness (lines 32-37),    *)
(* called by print_current_brightness and by set_current_brightness.       *)

read_brightness_open(p) ==
    /\ pc[p] \in {"set_cur_open", "show_cur_open"}
    /\ \E ok \in BOOLEAN :
         open(p, "brightness", "r", ok,
              IF pc[p] = "set_cur_open" THEN "set_cur_read" ELSE "show_cur_read")
    /\ UNCHANGED <<device, argv, groups, cur_brightness, max_brightness,
                   new_brightness, stdout>>

read_brightness_read(p) ==
    /\ pc[p] \in {"set_cur_read", "show_cur_read"}
    /\ \E ok \in BOOLEAN :
         LET r == PyInt(device.brightness)
             raised == ~ok \/ ~r.ok
         IN  /\ trace' = Log(p, << <<"read", "brightness", ok>>,
                                   <<"close", "brightness", TRUE>> >>)
             /\ handle' = [handle EXCEPT ![p] =
                             with_exit(@, <<"brightness", "r">>, raised)]
             /\ IF ~ok THEN Raise(p, "OSError") /\ UNCHANGED cur_brightness
                ELSE IF ~r.ok THEN Raise(p, "ValueError") /\ UNCHANGED cur_brightness
                ELSE /\ cur_brightness' = [cur_brightness EXCEPT ![p] = r.val]
                     /\ pc' = [pc EXCEPT ![p] =
                                 IF pc[p] = "set_cur_read" THEN after_cur(groups[p])
                                 ELSE "show_print"]
                     /\ outcome' = outcome
    /\ UNCHANGED <<device, argv, groups, max_brightness, new_brightness, stdout>>

read_max_brightness_open(p) ==
    /\ pc[p] \in {"set_max_open", "show_max_open"}
    /\ \E ok \in BOOLEAN :
         open(p, "max_brightness", "r", ok,
              IF pc[p] = "set_max_open" THEN "set_max_read" ELSE "show_max_read")
    /\ UNCHANGED <<device, argv, groups, cur_brightness, max_brightness,
                   new_brightness, stdout>>

read_max_brightness_read(p) ==
    /\ pc[p] \in {"set_max_read", "show_max_read"}
    /\ \E ok \in BOOLEAN :
         LET r == PyInt(device.max_brightness)
             raised == ~ok \/ ~r.ok
         IN  /\ trace' = Log(p, << <<"read", "max_brightness", ok>>,
                                   <<"close", "max_brightness", TRUE>> >>)
             /\ handle' = [handle EXCEPT ![p] =
                             with_exit(@, <<"max_brightness", "r">>, raised)]
             /\ IF ~ok THEN Raise(p, "OSError") /\ UNCHANGED max_brightness
                ELSE IF ~r.ok THEN Raise(p, "ValueError") /\ UNCHANGED max_brightness
                ELSE /\ max_brightness' = [max_brightness EXCEPT ![p] = r.val]
                     /\ pc' = [pc EXCEPT ![p] =
                                 IF pc[p] = "set_max_read" THEN "set_compute"
                                 ELSE "show_cur_open"]
                     /\ outcome' = outcome
    /\ UNCHANGED <<device, argv, groups, cur_brightness, new_brightness, stdout>>

----------------------------------------------------------------------------
(* print_current_brightness (lines 40-55), after its two reads.            *)

print_current_brightness(p) ==
    /\ pc[p] = "show_print"
    /\ IF max_brightness[p] = 0
       THEN /\ Raise(p, "ZeroDivisionError")
            /\ stdout' = stdout
       ELSE /\ stdout' = [stdout EXCEPT ![p] =
                  Append(@, FormatLine(cur_brightness[p], max_brightness[p]))]
            /\ pc' = [pc EXCEPT ![p] = "exit"]
            /\ outcome' = [outcome EXCEPT ![p] = "success"]
    /\ UNCHANGED <<device, argv, groups, cur_brightness, max_brightness,
                   new_brightness, handle, trace>>

----------------------------------------------------------------------------
(* set_current_brightness (lines 58-112).                                  *)

\* Lines 69-79: the match; no match raises ValueError.
set_match(p) ==
    /\ pc[p] = "set_match"
    /\ LET m == fullmatch(argv[p].value)
       IN  IF m = <<>>
           THEN Raise(p, "ValueError") /\ groups' = groups
           ELSE /\ groups' = [groups EXCEPT ![p] = m]
                /\ pc' = [pc EXCEPT ![p] = after_match(m)]
                /\ outcome' = outcome
    /\ UNCHANGED <<device, argv, cur_brightness, max_brightness,
                   new_brightness, handle, trace, stdout>>

\* Lines 91-109.
set_compute(p) ==
    /\ pc[p] = "set_compute"
    /\ new_brightness' = [new_brightness EXCEPT ![p] =
            compute(groups[p], cur_brightness[p], max_brightness[p])]
    /\ pc' = [pc EXCEPT ![p] = "set_write_open"]
    /\ UNCHANGED <<device, argv, groups, cur_brightness, max_brightness,
                   handle, trace, stdout, outcome>>

\* Line 111.
set_write_open(p) ==
    /\ pc[p] = "set_write_open"
    /\ \E ok \in BOOLEAN : open(p, "brightness", "w", ok, "set_write")
    /\ UNCHANGED <<device, argv, groups, cur_brightness, max_brightness,
                   new_brightness, stdout>>

\* Mutant of level_to_write: the change is applied to the level the device
\* holds at the time of the write, as a locked read-modify-write would.
level_to_write_fresh(p) ==
    PyInt(device.brightness).val + (new_brightness[p] - cur_brightness[p])

\* Line 112: the value printed to the file is the local new_brightness.
level_to_write(p) == new_brightness[p]

\* What print(new_brightness, file=fd) sends to the driver.
written_text(n) == PyStr(n) \o <<"LF">>

\* Line 112 and the end of the with block: the text is written when the
\* file object is closed; a failing write raises OSError.
set_write(p) ==
    /\ pc[p] = "set_write"
    /\ \E ok \in BOOLEAN :
         /\ trace' = Log(p, << <<"write", "brightness", ok>>,
                               <<"close", "brightness", TRUE>> >>)
         /\ handle' = [handle EXCEPT ![p] =
                         with_exit(@, <<"brightness", "w">>, ~ok)]
         /\ IF ok
            THEN /\ device' = [device EXCEPT
                                 !.brightness = written_text(level_to_write(p))]
                 /\ pc' = [pc EXCEPT ![p] = "exit"]
                 /\ outcome' = [outcome EXCEPT ![p] = "success"]
            ELSE /\ device' = device
                 /\ Raise(p, "OSError")
    /\ UNCHANGED <<argv, groups, cur_brightness, max_brightness,
                   new_brightness, stdout>>

----------------------------------------------------------------------------
(* Spec: one run of the tool, any command line, any device.                *)

Commands(values) ==
    {[cmd |-> c, value |-> <<>>] : c \in {"show", "other"}}
        \cup {[cmd |-> "set", value |-> v] : v \in values}

Start(procs) ==
    /\ pc = [p \in procs |-> "main"]
    /\ groups = [p \in procs |-> <<>>]
    /\ cur_brightness = [p \in procs |-> None]
    /\ max_brightness = [p \in procs |-> None]
    /\ new_brightness = [p \in procs |-> None]
    /\ handle = [p \in procs |-> {}]
    /\ trace = [p \in procs |-> <<>>]
    /\ stdout = [p \in procs |-> <<>>]
    /\ outcome = [p \in procs |-> "running"]

Init ==
    /\ device \in [brightness : CurTexts, max_brightness : MaxTexts]
    /\ argv \in [{1} -> Commands(Strings(Chars, MaxArgLen))]
    /\ Start({1})

Next ==
    \/ \E p \in DOMAIN pc : main(p)
    \/ \E p \in DOMAIN pc : read_brightness_open(p)
    \/ \E p \in DOMAIN pc : read_brightness_read(p)
    \/ \E p \in DOMAIN pc : read_max_brightness_open(p)
    \/ \E p \in DOMAIN pc : read_max_brightness_read(p)
    \/ \E p \in DOMAIN pc : print_current_brightness(p)
    \/ \E p \in DOMAIN pc : set_match(p)
    \/ \E p \in DOMAIN pc : set_compute(p)
    \/ \E p \in DOMAIN pc : set_write_open(p)
    \/ \E p \in DOMAIN pc : set_write(p)

Spec == Init /\ [][Next]_vars

----------------------------------------------------------------------------
(* SpecParse: the match of set_current_brightness on every string.         *)

InitParse ==
    /\ device = [brightness |-> DriverText(MaxCur),
                 max_brightness |-> DriverText(MaxMax)]
    /\ argv \in [{1} -> {[cmd |-> "set", value |-> v] : v \in Strings(Chars, MaxLen)}]
    /\ Start({1})

NextParse ==
    \/ \E p \in DOMAIN pc : main(p)
    \/ \E p \in DOMAIN pc : set_match(p)

SpecParse == InitParse /\ [][NextParse]_vars

----------------------------------------------------------------------------
(* SpecRound: lines 91-109 on every percentage of up to MaxPctLen ASCII    *)
(* digits, from the states set_current_brightness is in after its reads.   *)

PercentValues ==
    {sg \o ds \o <<"%">> :
        sg \in {<<>>, <<"+">>, <<"-">>},
        ds \in Strings(AsciiDigits, MaxPctLen) \ {<<>>}}

ReadEntries(file) ==
    << <<"open_r", file, TRUE>>, <<"read", file, TRUE>>, <<"close", file, TRUE>> >>

InitRound ==
    /\ device \in [brightness : {DriverText(0), DriverText(MaxCur)},
                   max_brightness : {DriverText(n) : n \in 0..MaxRoundMax}]
    /\ argv \in [{1} -> {[cmd |-> "set", value |-> v] : v \in PercentValues}]
    /\ pc = [p \in {1} |-> "set_compute"]
    /\ groups = [p \in {1} |-> fullmatch(argv[p].value)]
    /\ cur_brightness = [p \in {1} |->
          IF groups[p][1] # None THEN PyInt(device.brightness).val ELSE None]
    /\ max_brightness = [p \in {1} |-> PyInt(device.max_brightness).val]
    /\ new_brightness = [p \in {1} |-> None]
    /\ handle = [p \in {1} |-> {}]
    /\ trace = [p \in {1} |->
          (IF groups[p][1] # None THEN ReadEntries("brightness") ELSE <<>>)
              \o ReadEntries("max_brightness")]
    /\ stdout = [p \in {1} |-> <<>>]
    /\ outcome = [p \in {1} |-> "running"]

NextRound == \E p \in DOMAIN pc : set_compute(p)

SpecRound == InitRound /\ [][NextRound]_vars

----------------------------------------------------------------------------
(* SpecConc: two runs of `set' with a relative value against one device.   *)

RelativeValues ==
    {v \in Strings(Chars, MaxConcLen) :
        fullmatch(v) # <<>> /\ fullmatch(v)[1] # None /\ fullmatch(v)[3] = None}

InitConc ==
    /\ device \in [brightness : {DriverText(n) : n \in 0..MaxCur},
                   max_brightness : {DriverText(MaxMax)}]
    /\ argv \in [{1, 2} -> {[cmd |-> "set", value |-> v] : v \in RelativeValues}]
    /\ Start({1, 2})

NextConc ==
    \/ \E p \in DOMAIN pc : main(p)
    \/ \E p \in DOMAIN pc : set_match(p)
    \/ \E p \in DOMAIN pc : read_brightness_open(p)
    \/ \E p \in DOMAIN pc : read_brightness_read(p)
    \/ \E p \in DOMAIN pc : set_compute(p)
    \/ \E p \in DOMAIN pc : set_write_open(p)
    \/ \E p \in DOMAIN pc : set_write(p)

SpecConc == InitConc /\ [][NextConc]_vars

----------------------------------------------------------------------------
(* The claims.  What follows states the documented behaviour; it reads the *)
(* command line, the device and the record of device operations.           *)

Abs(x) == IF x < 0 THEN 0 - x ELSE x

HasSign(v) == v # <<>> /\ v[1] \in {"+", "-"}

HasPercent(v) == v # <<>> /\ v[Len(v)] = "%"

\* The digits of a value: what is left without its sign and its '%'.
Digits(v) ==
    LET a == IF HasSign(v) THEN Tail(v) ELSE v
    IN  IF HasPercent(a) THEN SubSeq(a, 1, Len(a) - 1) ELSE a

\* The documented grammar: sign? digits percent?, digits being one or more
\* ASCII decimal digits.
InGrammar(v) ==
    /\ Digits(v) # <<>>
    /\ \A i \in 1..Len(Digits(v)) : Digits(v)[i] \in AsciiDigits

\* The same grammar with every decimal digit of Unicode for a digit.
InDecimalGrammar(v) ==
    /\ Digits(v) # <<>>
    /\ \A i \in 1..Len(Digits(v)) : Digits(v)[i] \in DecimalDigits

\* The integer nearest to k/100, the even one of the two when k/100 lies
\* halfway between them.
NearestEven(k) ==
    CHOOSE x \in {k \div 100, (k \div 100) + 1} :
        /\ Abs(100 * x - k) <= 50
        /\ Abs(100 * x - k) = 50 => x % 2 = 0

\* The level a value asks for on a device.
Expected(v, dev) ==
    LET n == DigitsToInt(Digits(v))
        d == IF HasPercent(v)
             THEN NearestEven(n * PyInt(dev.max_brightness).val)
             ELSE n
    IN  IF ~HasSign(v) THEN d
        ELSE IF v[1] = "+" THEN PyInt(dev.brightness).val + d
        ELSE PyInt(dev.brightness).val - d

\* The positions of the trace of p that hold operation op on file.
Ops(p, op, file) ==
    {i \in 1..Len(trace[p]) : trace[p][i][1] = op /\ trace[p][i][2] = file}

\* How many reads of file a value needs.
Need(v, file) ==
    IF file = "brightness" THEN (IF HasSign(v) THEN 1 ELSE 0)
    ELSE (IF HasPercent(v) THEN 1 ELSE 0)

\* Some read of p failed: a file could not be opened or read.
ReadFailed(p) ==
    \E i \in 1..Len(trace[p]) :
        trace[p][i][1] \in {"open_r", "read"} /\ ~trace[p][i][3]

\* Some device operation of p failed.
IoFailed(p) == \E i \in 1..Len(trace[p]) : ~trace[p][i][3]

\* p read, without an I/O error, a file whose text is no integer.
ReadGarbage(p) ==
    \E i \in 1..Len(trace[p]) :
        /\ trace[p][i][1] = "read" /\ trace[p][i][3]
        /\ ~PyInt(device[trace[p][i][2]]).ok

ValidDevice ==
    /\ PyInt(device.brightness).ok /\ PyInt(device.brightness).val >= 0
    /\ PyInt(device.max_brightness).ok /\ PyInt(device.max_brightness).val > 0

\* C1: set accepts its <value> if and only if the whole string is
\* sign? digits percent? with ASCII digits; every other string is rejected
\* with a usage error.
C1_AcceptedIffInGrammar ==
    \A p \in DOMAIN pc :
        (argv[p].cmd = "set" /\ pc[p] \notin {"main", "set_match"}) =>
            /\ (groups[p] # <<>>) <=> InGrammar(argv[p].value)
            /\ groups[p] = <<>> => outcome[p] = "DocoptExit"

\* What the code does where C1 says otherwise: the digits it accepts are
\* the decimal digits of Unicode.
AcceptedIffInDecimalGrammar ==
    \A p \in DOMAIN pc :
        (argv[p].cmd = "set" /\ pc[p] \notin {"main", "set_match"}) =>
            /\ (groups[p] # <<>>) <=> InDecimalGrammar(argv[p].value)
            /\ groups[p] = <<>> => outcome[p] = "DocoptExit"

\* C2: a set that succeeds has written, as its last step, the level its
\* value asks for on the device as it was: n, round(p*max/100), current+-n
\* or current+-round(p*max/100), not clamped to [0, max]; max_brightness is
\* not altered.
C2_SetWritesComputedLevel ==
    [][\A p \in DOMAIN pc :
          (argv[p].cmd = "set" /\ outcome[p] # "success" /\ outcome'[p] = "success") =>
              /\ device'.brightness = DriverText(Expected(argv[p].value, device))
              /\ device'.max_brightness = device.max_brightness
              /\ Len(trace'[p]) >= 2
              /\ trace'[p][Len(trace'[p]) - 1] = <<"write", "brightness", TRUE>>]_vars

\* C2, its case: a set by a signed percentage has succeeded and left a
\* negative level.
C2_Witness ==
    \E p \in DOMAIN pc :
        /\ argv[p].cmd = "set" /\ outcome[p] = "success"
        /\ HasSign(argv[p].value) /\ HasPercent(argv[p].value)
        /\ PyInt(device.brightness).val < 0

\* C3: a <value> outside the grammar makes set end with a usage error and
\* a nonzero exit status, and no device file is opened, read or written at
\* any point of the run.
C3_MalformedValueNeverTouchesDevice ==
    \A p \in DOMAIN pc :
        (argv[p].cmd = "set" /\ ~InGrammar(argv[p].value)) =>
            /\ trace[p] = <<>>
            /\ pc[p] = "exit" =>
                  outcome[p] = "DocoptExit" /\ ExitStatus(outcome[p]) # 0

\* What holds of the code for C3: a <value> the code rejects ends the run
\* with a usage error and without any device operation.
RejectedValueNeverTouchesDevice ==
    \A p \in DOMAIN pc :
        (argv[p].cmd = "set" /\ ~InDecimalGrammar(argv[p].value)) =>
            /\ trace[p] = <<>>
            /\ pc[p] = "exit" =>
                  outcome[p] = "DocoptExit" /\ ExitStatus(outcome[p]) # 0

\* C4: a device file that holds no integer ends the run with an error of
\* its own kind and a nonzero exit status; the usage error is reported only
\* for a malformed command line or <value>, never once a device file has
\* been opened.
C4_UsageErrorOnlyBeforeDevice ==
    \A p \in DOMAIN pc :
        /\ outcome[p] = "DocoptExit" =>
              /\ trace[p] = <<>>
              /\ \/ argv[p].cmd = "other"
                 \/ argv[p].cmd = "set" /\ ~InGrammar(argv[p].value)
        /\ (pc[p] = "exit" /\ ReadGarbage(p)) =>
              outcome[p] # "DocoptExit" /\ ExitStatus(outcome[p]) # 0

\* The line show prints for the levels cur and max: the percentage is a
\* number of hundredths h nearest to cur*100/max, shown with two decimals.
IsShowLine(line, cur, max) ==
    \E h \in {(cur * 10000) \div max, ((cur * 10000) \div max) + 1} :
        /\ 2 * Abs(h * max - cur * 10000) <= max
        /\ line = <<"Current brightness: ">> \o PyStr(cur) \o <<"/">> \o PyStr(max)
                    \o <<" (">> \o PyStr(h \div 100) \o <<".">>
                    \o PyStr((h % 100) \div 10) \o PyStr(h % 10) \o <<"%)">>

C5_ShowEnded(p) ==
    /\ Ops(p, "open_w", "brightness") = {}
    /\ Ops(p, "write", "brightness") = {}
    /\ ValidDevice =>
          /\ outcome[p] \in {"success", "OSError"}
          /\ outcome[p] = "OSError" <=> IoFailed(p)
          /\ outcome[p] = "success" =>
                /\ ExitStatus(outcome[p]) = 0
                /\ Len(stdout[p]) = 1
                /\ IsShowLine(stdout[p][1], PyInt(device.brightness).val,
                              PyInt(device.max_brightness).val)

\* C5: on a device with current >= 0 and max > 0, show (and a command line
\* without subcommand) prints the one line
\* 'Current brightness: <current>/<max> (<pct>%)', pct being current*100/max
\* with two decimals, and exits with status 0 unless a read fails; it never
\* opens brightness for writing and no step of it changes the device.
C5_ShowPrintsLevelAndKeepsDevice ==
    /\ [](\A p \in DOMAIN pc :
            (argv[p].cmd = "show" /\ pc[p] = "exit") => C5_ShowEnded(p))
    /\ [][\A p \in DOMAIN pc : argv[p].cmd = "show" => device' = device]_vars

\* C5, its case: show has printed a percentage that is not a whole number
\* of hundredths.
C5_Witness ==
    \E p \in DOMAIN pc :
        /\ argv[p].cmd = "show" /\ outcome[p] = "success" /\ Len(stdout[p]) = 1
        /\ (PyInt(device.brightness).val * 10000) % PyInt(device.max_brightness).val # 0

\* C6: set reads brightness only for a signed value and max_brightness only
\* for a value with '%', each at most once, and exactly once by the time
\* the new level is computed.
C6_ReadsOnlyWhatIsNeeded ==
    \A p \in DOMAIN pc : \A f \in Files :
        argv[p].cmd = "set" =>
            /\ Cardinality(Ops(p, "open_r", f)) <= Need(argv[p].value, f)
            /\ Cardinality(Ops(p, "read", f)) <= Need(argv[p].value, f)
            /\ pc[p] \in {"set_compute", "set_write_open", "set_write"}
                  \/ outcome[p] = "success" =>
                  /\ Cardinality(Ops(p, "open_r", f)) = Need(argv[p].value, f)
                  /\ Cardinality(Ops(p, "read", f)) = Need(argv[p].value, f)

\* C6, its case: a set with a sign and a '%' has succeeded after one read
\* of each file.
C6_Witness ==
    \E p \in DOMAIN pc :
        /\ argv[p].cmd = "set" /\ outcome[p] = "success"
        /\ HasSign(argv[p].value) /\ HasPercent(argv[p].value)
        /\ Cardinality(Ops(p, "read", "brightness")) = 1
        /\ Cardinality(Ops(p, "read", "max_brightness")) = 1

\* The change a percentage made: the new level, or its distance from the
\* current one.
PercentLevel(p) ==
    IF ~HasSign(argv[p].value) THEN new_brightness[p]
    ELSE IF argv[p].value[1] = "+" THEN new_brightness[p] - cur_brightness[p]
    ELSE cur_brightness[p] - new_brightness[p]

\* p * max of the percentage of run p.
PercentProduct(p) == DigitsToInt(Digits(argv[p].value)) * max_brightness[p]

\* C7: round(p*max/100) is the integer nearest to p*max/100, and the even
\* one when p*max/100 lies halfway between two integers.
C7_PercentRoundsHalfToEven ==
    \A p \in DOMAIN pc :
        (argv[p].cmd = "set" /\ pc[p] = "set_write_open"
            /\ HasPercent(argv[p].value)) =>
            /\ Abs(100 * PercentLevel(p) - PercentProduct(p)) <= 50
            /\ Abs(100 * PercentLevel(p) - PercentProduct(p)) = 50 =>
                  PercentLevel(p) % 2 = 0

\* C7, its case: a tie has been rounded down to the even integer.
C7_Witness ==
    \E p \in DOMAIN pc :
        /\ argv[p].cmd = "set" /\ pc[p] = "set_write_open"
        /\ HasPercent(argv[p].value)
        /\ 100 * PercentLevel(p) + 50 = PercentProduct(p)

C8_SetOrder(p) ==
    LET t == trace[p]
        W == Ops(p, "open_w", "brightness")
    IN  /\ Cardinality(W) <= 1
        /\ \A i \in W :
              /\ \A j \in 1..(i - 1) :
                    t[j][3] /\ t[j][1] \in {"open_r", "read", "close"}
              /\ \A j \in (i + 1)..Len(t) :
                    t[j][1] \in {"write", "close"} /\ t[j][2] = "brightness"
              /\ \A f \in Files :
                    Cardinality(Ops(p, "read", f)) = Need(argv[p].value, f)
        /\ Ops(p, "write", "brightness") # {} => W # {}
        /\ ReadFailed(p) =>
              W = {} /\ pc[p] = "exit" /\ outcome[p] = "OSError"
        /\ ReadGarbage(p) => W = {} /\ pc[p] = "exit"
        /\ outcome[p] = "success" =>
              /\ Cardinality(Ops(p, "write", "brightness")) = 1
              /\ t[Len(t) - 1] = <<"write", "brightness", TRUE>>

\* C8: in a run of set the write of brightness comes after every needed
\* read has succeeded and is the last device operation; a set that succeeds
\* has written exactly once; once a needed read has failed, brightness is
\* never opened for writing and no step changes the device.
C8_WriteOnlyAfterReads ==
    /\ [](\A p \in DOMAIN pc : argv[p].cmd = "set" => C8_SetOrder(p))
    /\ [][\A p \in DOMAIN pc :
            (argv[p].cmd = "set" /\ (ReadFailed(p) \/ ReadGarbage(p))') =>
                device' = device]_vars

\* C8, its case: the second read of a set failed and the run has ended
\* without opening brightness for writing.
C8_Witness ==
    \E p \in DOMAIN pc :
        /\ argv[p].cmd = "set" /\ pc[p] = "exit"
        /\ Ops(p, "read", "brightness") # {}
        /\ ReadFailed(p)
        /\ Ops(p, "open_w", "brightness") = {}

\* Both runs have succeeded after reading the same current level, each
\* asking for a change other than 0.
BothReadBeforeEitherWrote ==
    /\ outcome[1] = "success" /\ outcome[2] = "success"
    /\ cur_brightness[1] = cur_brightness[2]
    /\ DigitsToInt(Digits(argv[1].value)) # 0
    /\ DigitsToInt(Digits(argv[2].value)) # 0

\* The change a relative value asks for.
Delta(v) ==
    IF v[1] = "+" THEN DigitsToInt(Digits(v)) ELSE 0 - DigitsToInt(Digits(v))

\* C9: nothing is locked between the read and the write of brightness: of
\* two concurrent relative sets that both read the level current0 before
\* either wrote, only one change survives; the final level is current0 + d1
\* or current0 + d2 and not current0 + d1 + d2.
C9_LostUpdate ==
    BothReadBeforeEitherWrote =>
        /\ PyInt(device.brightness).val
              \in {cur_brightness[1] + Delta(argv[1].value),
                   cur_brightness[1] + Delta(argv[2].value)}
        /\ PyInt(device.brightness).val
              # cur_brightness[1] + Delta(argv[1].value) + Delta(argv[2].value)

\* C9, its case: the lost update has happened, the change of run 1 is gone.
C9_Witness ==
    /\ BothReadBeforeEitherWrote
    /\ Delta(argv[1].value) # Delta(argv[2].value)
    /\ PyInt(device.brightness).val = cur_brightness[1] + Delta(argv[2].value)

\* Every file object p opened was used for the one read or the one write of
\* its mode and closed right after it.
C10_OneUsePerHandle(p) ==
    LET t == trace[p]
    IN  \A i \in 1..Len(t) :
            (t[i][1] \in {"open_r", "open_w"} /\ t[i][3]) =>
                IF i = Len(t)
                THEN handle[p] = {<<t[i][2], IF t[i][1] = "open_r" THEN "r" ELSE "w">>}
                ELSE /\ i + 2 <= Len(t)
                     /\ t[i + 1][1] = (IF t[i][1] = "open_r" THEN "read" ELSE "write")
                     /\ t[i + 1][2] = t[i][2]
                     /\ t[i + 2][1] = "close" /\ t[i + 2][2] = t[i][2]
                     /\ (i + 2 = Len(t) => handle[p] = {})

\* C10: each file object is used for one read or one write and closed
\* before the next file is opened; at most one is open at any time and none
\* is open when the run has ended, whatever ended it.
C10_HandlesAreScoped ==
    \A p \in DOMAIN pc :
        /\ Cardinality(handle[p]) <= 1
        /\ pc[p] = "exit" => handle[p] = {}
        /\ trace[p] = <<>> => handle[p] = {}
        /\ C10_OneUsePerHandle(p)

\* C10, its case: a run has ended by an error raised inside a with block,
\* and its file object is closed.
C10_Witness ==
    \E p \in DOMAIN pc :
        /\ pc[p] = "exit" /\ outcome[p] \notin {"running", "success"}
        /\ \E i \in 1..Len(trace[p]) :
              trace[p][i][1] \in {"read", "write"} /\ ~trace[p][i][3]
        /\ handle[p] = {}

====
